---- MODULE Spec2Model ----
(***************************************************************************)
(* A model of power.py: a Streamlit script that loads power_data.csv,      *)
(* builds three multiselect widgets, filters the table on a button press,  *)
(* shows aggregates, offers a CSV export and draws a coverage matrix.      *)
(*                                                                         *)
(* One behaviour is one run of the script from top to bottom.              *)
(*                                                                         *)
(* Text is modelled as a sequence of characters, one string per character. *)
(* TLA+ strings are ASCII, so the character U+6708 (month) is written      *)
(* "yue" and the character U+5E74 (year) is written "nian"; each is ONE    *)
(* character of the text.  A missing CSV cell (pandas NaN) is the empty    *)
(* text <<>> for a text column.  A float is the exact rational num/den.    *)
(***************************************************************************)
EXTENDS Integers, Sequences, FiniteSets, TLC

VARIABLES
    pc,              \* position of the script
    src,             \* power_data.csv as it is on disk
    now,             \* datetime.now(): [year, month]
    err,             \* "none", "schema" (ValueError of load_data) or "other"
    missing,         \* the list the schema error names
    df,              \* the table load_data returned: [cols, rows]
    valid_years,     \* line 32
    default_year,    \* line 33
    default_month,   \* line 34
    station_options, \* line 41
    month_options,   \* line 53
    stations,        \* value of the station multiselect
    years,           \* value of the year multiselect
    months,          \* value of the month multiselect
    result,          \* line 63: sequence of rows
    outcome,         \* "none", "warning" or "shown"
    total_power,     \* line 77
    total_fee,       \* line 78
    avg_price,       \* line 79
    csv,             \* line 94: sequence of lines, each a sequence of cells
    coverage,        \* line 105: [station -> [year -> count]]
    exc,             \* the exception that ended the run after the load, or "none"
    log              \* the steps the run has executed, in order

vars == << pc, src, now, err, missing, df, valid_years, default_year,
           default_month, station_options, month_options, stations, years,
           months, result, outcome, total_power, total_fee, avg_price, csv,
           coverage, exc, log >>

\* ------------------------------------------------------------------ bounds

\* The longest source table (number of data rows of the CSV).
MaxRows == 2

\* ------------------------------------------------------------ generic helpers

Range(s) == { s[i] : i \in 1..Len(s) }

RECURSIVE FilterSeq(_, _)
\* [x for x in s if x in keep]
FilterSeq(s, keep) ==
    IF s = <<>> THEN <<>>
    ELSE (IF Head(s) \in keep THEN <<Head(s)>> ELSE <<>>) \o FilterSeq(Tail(s), keep)

RECURSIVE SumOver(_, _)
\* Series.sum() of column c over a sequence of rows
SumOver(rows, c) ==
    IF rows = <<>> THEN 0 ELSE Head(rows)[c] + SumOver(Tail(rows), c)

\* ------------------------------------------------------------------- text

Digits == {"0", "1", "2", "3", "4", "5", "6", "7", "8", "9"}

DigitVal(c) ==
    CASE c = "0" -> 0 [] c = "1" -> 1 [] c = "2" -> 2 [] c = "3" -> 3
      [] c = "4" -> 4 [] c = "5" -> 5 [] c = "6" -> 6 [] c = "7" -> 7
      [] c = "8" -> 8 [] c = "9" -> 9

DigitChar(n) ==
    CASE n = 0 -> "0" [] n = 1 -> "1" [] n = 2 -> "2" [] n = 3 -> "3"
      [] n = 4 -> "4" [] n = 5 -> "5" [] n = 6 -> "6" [] n = 7 -> "7"
      [] n = 8 -> "8" [] n = 9 -> "9"

IsDigits(s) == Len(s) > 0 /\ \A i \in 1..Len(s) : s[i] \in Digits

RECURSIVE DigitsValue(_)
DigitsValue(s) ==
    IF s = <<>> THEN 0
    ELSE 10 * DigitsValue(SubSeq(s, 1, Len(s) - 1)) + DigitVal(s[Len(s)])

RECURSIVE Pow10(_)
Pow10(n) == IF n = 0 THEN 1 ELSE 10 * Pow10(n - 1)

RECURSIVE IntText(_)
\* str(n) for n >= 0
IntText(n) ==
    IF n < 10 THEN <<DigitChar(n)>> ELSE IntText(n \div 10) \o <<DigitChar(n % 10)>>

\* Unicode code points of the one-letter station names (Python compares str by them)
CodePoint(s) == CASE s = "A" -> 65 [] s = "B" -> 66 [] OTHER -> 0

\* ------------------------------------------------------------------ floats

NaN == [nan |-> TRUE, num |-> 0, den |-> 1]

Float(n, d) == [nan |-> FALSE, num |-> n, den |-> d]

\* position of the first "." of s, or 0
DotAt(s) ==
    IF \E i \in 1..Len(s) : s[i] = "."
    THEN CHOOSE i \in 1..Len(s) : s[i] = "." /\ \A j \in 1..(i - 1) : s[j] # "."
    ELSE 0

\* an unsigned decimal literal: digits, or digits "." digits
UnsignedNumeric(s) ==
    LET d == DotAt(s) IN
    IF d = 0
    THEN (IF IsDigits(s) THEN Float(DigitsValue(s), 1) ELSE NaN)
    ELSE LET whole == SubSeq(s, 1, d - 1)
             frac  == SubSeq(s, d + 1, Len(s))
         IN IF IsDigits(whole) /\ IsDigits(frac)
            THEN Float(DigitsValue(whole) * Pow10(Len(frac)) + DigitsValue(frac),
                       Pow10(Len(frac)))
            ELSE NaN

\* pd.to_numeric(cell, errors="coerce") of one cell: the float it denotes, NaN
\* for a missing cell and for text that is no number
to_numeric(cell) ==
    IF cell = <<>> THEN NaN
    ELSE IF Head(cell) = "-"
         THEN LET u == UnsignedNumeric(Tail(cell)) IN
              IF u.nan THEN NaN ELSE Float(0 - u.num, u.den)
         ELSE UnsignedNumeric(cell)

\* float -> int64 of Series.astype(int): truncation toward zero
astype_int(x) ==
    IF x.num >= 0 THEN x.num \div x.den ELSE 0 - ((0 - x.num) \div x.den)

\* ------------------------------------------------------------- the source

required_cols == <<"station", "year", "month", "power_kwh", "fee_yuan", "price_yuan_per_kwh">>

\* a header with the columns in another order and one extra column
OtherCols == <<"year", "station", "remark", "month", "fee_yuan", "power_kwh", "price_yuan_per_kwh">>

AllCols == Range(OtherCols)

Y2023     == <<"2", "0", "2", "3">>
Y2024     == <<"2", "0", "2", "4">>
Y2023nian == <<"2", "0", "2", "3", "nian">>
Y2023half == <<"2", "0", "2", "3", ".", "5">>
M1        == <<"1", "yue">>
M3        == <<"3", "yue">>
Mar       == <<"M", "a", "r">>

MkRow(st, yr, mo, p, f) ==
    [station |-> st, year |-> yr, month |-> mo, power_kwh |-> p, fee_yuan |-> f,
     price_yuan_per_kwh |-> 5, remark |-> "x"]

\* The data rows a source file is made of.  "" is a missing station, <<>> a
\* missing year or month.
RowSet ==
    { MkRow("A", Y2023,     M1,  100, 50),
      MkRow("A", Y2023,     M3,  200, 80),
      MkRow("B", Y2023,     M1,  0 - 100, 20),
      MkRow("B", Y2024,     M1,  0,   7),
      MkRow("B", Y2023nian, M3,  200, 80),
      MkRow("A", <<>>,      M1,  100, 50),
      MkRow("A", Y2023half, M3,  100, 50),
      MkRow("",  Y2023,     M1,  100, 50),
      MkRow("A", Y2024,     Mar, 200, 80),
      MkRow("B", Y2024,     <<>>, 200, 80) }

Tables == UNION { [1..n -> RowSet] : n \in 0..MaxRows }

ValidHeaders == { required_cols, OtherCols }

\* every header that lacks at least one required column
BadHeaders ==
    { FilterSeq(h, AllCols \ gone) :
        h \in ValidHeaders, gone \in (SUBSET Range(required_cols)) \ {{}} }

Restrict(row, cols) == [c \in Range(cols) |-> row[c]]

MkSrc(h, t) ==
    [exists |-> TRUE, cols |-> h, rows |-> [i \in 1..Len(t) |-> Restrict(t[i], h)]]

NoFile == [exists |-> FALSE, cols |-> <<>>, rows |-> <<>>]

Sources ==
    {NoFile}
    \cup { MkSrc(h, t) : h \in ValidHeaders, t \in Tables }
    \cup { MkSrc(h, t) : h \in BadHeaders, t \in { u \in Tables : Len(u) <= 1 } }

Nows == { [year |-> 2023, month |-> 3], [year |-> 2025, month |-> 12] }

\* ------------------------------------------------------------- load_data

\* mutant: the list stops at the first missing column
MissingColsFirstOnly(cols) ==
    LET m == FilterSeq(required_cols, Range(required_cols) \ Range(cols)) IN
    IF m = <<>> THEN <<>> ELSE <<Head(m)>>

\* line 10
MissingCols(cols) == FilterSeq(required_cols, Range(required_cols) \ Range(cols))

\* mutant: fillna(0) in place of dropna, so no row is discarded
CoerceYearKeepAll(rows) ==
    [i \in 1..Len(rows) |->
        LET y == to_numeric(rows[i]["year"]) IN
        [rows[i] EXCEPT !["year"] = IF y.nan THEN 0 ELSE astype_int(y)]]

RECURSIVE CoerceYear(_)
\* lines 14-16 on the rows: to_numeric, dropna(subset=["year"]), astype(int)
CoerceYear(rows) ==
    IF rows = <<>> THEN <<>>
    ELSE LET r == Head(rows)
             y == to_numeric(r["year"])
         IN (IF y.nan THEN <<>> ELSE << [r EXCEPT !["year"] = astype_int(y)] >>)
            \o CoerceYear(Tail(rows))

EmptyDf == [cols |-> <<>>, rows |-> <<>>]

\* mutant: the except branch without st.stop()
AfterLoadErrorContinue == "loaded"

\* line 27: st.stop() ends the run
AfterLoadError == "stopped"

\* lines 23-27 with load_data, lines 6-17
Load ==
    /\ pc = "start"
    /\ \/ /\ ~src.exists                       \* read_csv raises
          /\ err' = "other"
          /\ UNCHANGED << missing, df >>
          /\ pc' = AfterLoadError
          /\ log' = Append(log, "load_failed")
       \/ /\ src.exists
          /\ MissingCols(src.cols) # <<>>      \* line 11
          /\ err' = "schema"
          /\ missing' = MissingCols(src.cols)
          /\ UNCHANGED df
          /\ pc' = AfterLoadError
          /\ log' = Append(log, "load_failed")
       \/ /\ src.exists
          /\ MissingCols(src.cols) = <<>>
          /\ df' = [cols |-> src.cols, rows |-> CoerceYear(src.rows)]
          /\ UNCHANGED << err, missing >>
          /\ pc' = "loaded"
          /\ log' = Append(log, "load")
    /\ UNCHANGED << src, now, valid_years, default_year, default_month,
                    station_options, month_options, stations, years, months,
                    result, outcome, total_power, total_fee, avg_price, csv,
                    coverage, exc >>

Init ==
    /\ pc = "start"
    /\ src \in Sources
    /\ now \in Nows
    /\ err = "none"
    /\ missing = <<>>
    /\ df = EmptyDf
    /\ valid_years = <<>>
    /\ default_year = 0
    /\ default_month = <<>>
    /\ station_options = <<>>
    /\ month_options = <<>>
    /\ stations = {}
    /\ years = {}
    /\ months = {}
    /\ result = <<>>
    /\ outcome = "none"
    /\ total_power = 0
    /\ total_fee = 0
    /\ avg_price = Float(0, 1)
    /\ csv = <<>>
    /\ coverage = [s \in {} |-> 0]
    /\ exc = "none"
    /\ log = <<>>

\* ------------------------------------------------------- sorting, unique

RECURSIVE Unique(_)
\* Series.unique(): the distinct values in order of first appearance
Unique(s) ==
    IF s = <<>> THEN <<>>
    ELSE LET u == Unique(SubSeq(s, 1, Len(s) - 1)) IN
         IF s[Len(s)] \in Range(u) THEN u ELSE Append(u, s[Len(s)])

\* [x for x in s if not isna(x)] on a text column
DropNa(s, na) == FilterSeq(s, Range(s) \ {na})

Column(rows, c) == [i \in 1..Len(rows) |-> rows[i][c]]

RECURSIVE InsertByKey(_, _)
\* e after every element whose key is <= e.key
InsertByKey(e, s) ==
    IF s = <<>> THEN <<e>>
    ELSE IF Head(s).key <= e.key THEN <<Head(s)>> \o InsertByKey(e, Tail(s))
         ELSE <<e>> \o s

RECURSIVE SortByKey(_)
\* sorted(s, key=...) on [key, val] pairs: stable, ascending
SortByKey(s) ==
    IF s = <<>> THEN <<>>
    ELSE InsertByKey(s[Len(s)], SortByKey(SubSeq(s, 1, Len(s) - 1)))

Vals(s) == [i \in 1..Len(s) |-> s[i].val]

\* sorted(ints, reverse=True)
SortedDesc(s) == Vals(SortByKey([i \in 1..Len(s) |-> [key |-> 0 - s[i], val |-> s[i]]]))

\* sorted(station names)
SortedStations(s) ==
    Vals(SortByKey([i \in 1..Len(s) |-> [key |-> CodePoint(s[i]), val |-> s[i]]]))

\* x.replace("yue", "")
StripYue(x) == FilterSeq(x, Range(x) \ {"yue"})

\* whether int(x.replace("yue", "")) returns (it raises ValueError otherwise)
MonthKeyOk(x) == IsDigits(StripYue(x))

MonthKey(x) == DigitsValue(StripYue(x))

\* sorted(labels, key=lambda x: int(x.replace("yue", "")))
SortedMonths(s) ==
    Vals(SortByKey([i \in 1..Len(s) |-> [key |-> MonthKey(s[i]), val |-> s[i]]]))

\* ----------------------------------------------------- defaults, lines 30-34

current_year == now.year

\* f"{datetime.now().month}yue"
current_month == IntText(now.month) \o <<"yue">>

ValidYears(d) == SortedDesc(Unique(Column(d.rows, "year")))

DefaultYear(vy) == IF current_year \in Range(vy) THEN current_year ELSE vy[1]

DefaultMonth(d) ==
    IF current_month \in Range(Unique(Column(d.rows, "month"))) THEN current_month ELSE M1

Defaults ==
    /\ pc = "loaded"
    /\ valid_years' = ValidYears(df)
    /\ \/ /\ current_year \notin Range(valid_years') /\ valid_years' = <<>>
          /\ exc' = "IndexError"               \* valid_years[0], line 33
          /\ pc' = "crashed"
          /\ UNCHANGED << default_year, default_month, log >>
       \/ /\ current_year \in Range(valid_years') \/ valid_years' # <<>>
          /\ default_year' = DefaultYear(valid_years')
          /\ default_month' = DefaultMonth(df)
          /\ pc' = "defaults"
          /\ log' = Append(log, "defaults")
          /\ UNCHANGED exc
    /\ UNCHANGED << src, now, err, missing, df, station_options, month_options,
                    stations, years, months, result, outcome, total_power,
                    total_fee, avg_price, csv, coverage >>

\* ---------------------------------------------------- selectors, lines 37-58

StationOptions(d) == SortedStations(Unique(DropNa(Column(d.rows, "station"), "")))

MonthLabels(d) == Unique(DropNa(Column(d.rows, "month"), <<>>))

\* st.multiselect raises when a default is not among the options
DefaultsOk(options, default) == \A x \in Range(default) : x \in Range(options)

\* the exception lines 37-58 raise on table d, or "none"
SelectorsExc(d) ==
    IF StationOptions(d) = <<>> THEN "IndexError"                      \* line 42
    ELSE IF ~DefaultsOk(valid_years, <<default_year>>) THEN "StreamlitAPIException"
    ELSE IF \E i \in 1..Len(MonthLabels(d)) : ~MonthKeyOk(MonthLabels(d)[i])
         THEN "ValueError"                                             \* line 55
    ELSE IF ~DefaultsOk(SortedMonths(MonthLabels(d)), <<default_month>>)
         THEN "StreamlitAPIException"                                  \* line 57
    ELSE "none"

Selectors ==
    /\ pc = "defaults"
    /\ \/ /\ SelectorsExc(df) # "none"
          /\ exc' = SelectorsExc(df)
          /\ pc' = "crashed"
          /\ UNCHANGED << station_options, month_options, stations, years, months, log >>
       \/ /\ SelectorsExc(df) = "none"
          /\ station_options' = StationOptions(df)
          /\ month_options' = SortedMonths(MonthLabels(df))
          /\ stations' \in SUBSET Range(station_options')
          /\ years' \in SUBSET Range(valid_years)
          /\ months' \in SUBSET Range(month_options')
          /\ pc' = "selected"
          /\ log' = Append(log, "selectors")
          /\ UNCHANGED exc
    /\ UNCHANGED << src, now, err, missing, df, valid_years, default_year,
                    default_month, result, outcome, total_power, total_fee,
                    avg_price, csv, coverage >>

\* -------------------------------------------------------- query, lines 61-100

\* mutant: the mask without the month test
FilterRowsNoMonth(rows, ss, ys, ms) ==
    FilterSeq(rows, { r \in Range(rows) : r["station"] \in ss /\ r["year"] \in ys })

RECURSIVE FilterRows(_, _, _, _)
\* lines 63-67: the boolean mask of the three isin tests, applied in row order
FilterRows(rows, ss, ys, ms) ==
    IF rows = <<>> THEN <<>>
    ELSE LET r == Head(rows) IN
         (IF r["station"] \in ss /\ r["year"] \in ys /\ r["month"] \in ms
          THEN <<r>> ELSE <<>>) \o FilterRows(Tail(rows), ss, ys, ms)

\* mutant: the guard tests != 0 in place of > 0
AvgPriceNonZero(fee, power) == IF power # 0 THEN [nan |-> FALSE, num |-> fee, den |-> power]
                               ELSE [nan |-> FALSE, num |-> 0, den |-> 1]

\* line 79
AvgPrice(fee, power) == IF power > 0 THEN Float(fee, power) ELSE Float(0, 1)

\* str() of an int64 cell
SignedText(n) == IF n < 0 THEN <<"-">> \o IntText(0 - n) ELSE IntText(n)

\* the text to_csv writes for the cell of column c
CellText(row, c) ==
    IF c \in {"year", "power_kwh", "fee_yuan", "price_yuan_per_kwh"}
    THEN SignedText(row[c])
    ELSE IF c = "month" THEN row[c] ELSE <<row[c]>>

\* one line per column name
HeaderLine(cols) == [j \in 1..Len(cols) |-> <<cols[j]>>]

\* mutant: to_csv(index=False, header=False)
to_csv_no_header(cols, rows) ==
    [i \in 1..Len(rows) |-> [j \in 1..Len(cols) |-> CellText(rows[i], cols[j])]]

\* DataFrame.to_csv(index=False): the header line, then one line per row
to_csv(cols, rows) ==
    <<HeaderLine(cols)>>
    \o [i \in 1..Len(rows) |-> [j \in 1..Len(cols) |-> CellText(rows[i], cols[j])]]

\* mutant: len(result) <= 1 in place of result.empty
IsEmptyOrSingle(rows) == Len(rows) <= 1

\* line 70: result.empty
IsEmpty(rows) == Len(rows) = 0

Query ==
    /\ pc = "selected"
    /\ \/ /\ UNCHANGED << result, outcome, total_power, total_fee, avg_price, csv >>
          /\ log' = Append(log, "no_click")    \* the button was not pressed
       \/ /\ result' = FilterRows(df.rows, stations, years, months)
          /\ IsEmpty(result')
          /\ outcome' = "warning"
          /\ UNCHANGED << total_power, total_fee, avg_price, csv >>
          /\ log' = log \o <<"query", "warning">>
       \/ /\ result' = FilterRows(df.rows, stations, years, months)
          /\ ~IsEmpty(result')
          /\ outcome' = "shown"
          /\ total_power' = SumOver(result', "power_kwh")
          /\ total_fee' = SumOver(result', "fee_yuan")
          /\ avg_price' = AvgPrice(total_fee', total_power')
          /\ csv' = to_csv(df.cols, result')
          /\ log' = log \o <<"query", "table", "aggregate", "export">>
    /\ pc' = "queried"
    /\ UNCHANGED << src, now, err, missing, df, valid_years, default_year,
                    default_month, station_options, month_options, stations,
                    years, months, coverage, exc >>

\* ---------------------------------------------------- coverage, lines 103-106

\* groupby(['station', 'year']) leaves out the rows whose key is missing
Grouped(rows) == FilterSeq(rows, { r \in Range(rows) : r["station"] # "" })

\* mutant: the rows are counted per station, whatever their year
CoverageByStationOnly(rows) ==
    LET g == FilterSeq(rows, { r \in Range(rows) : r["station"] # "" }) IN
    [ s \in { g[i]["station"] : i \in 1..Len(g) } |->
        [ y \in { g[i]["year"] : i \in 1..Len(g) } |->
            Cardinality({ i \in 1..Len(g) : g[i]["station"] = s }) ] ]

\* groupby(...).size().unstack(fill_value=0)
CoverageOf(rows) ==
    LET g == Grouped(rows) IN
    [ s \in Range(Column(g, "station")) |->
        [ y \in Range(Column(g, "year")) |->
            Cardinality({ i \in 1..Len(g) : g[i]["station"] = s /\ g[i]["year"] = y }) ] ]

Coverage ==
    /\ pc = "queried"
    /\ coverage' = CoverageOf(df.rows)
    /\ pc' = "done"
    /\ log' = Append(log, "coverage")
    /\ UNCHANGED << src, now, err, missing, df, valid_years, default_year,
                    default_month, station_options, month_options, stations,
                    years, months, result, outcome, total_power, total_fee,
                    avg_price, csv, exc >>

Next == Load \/ Defaults \/ Selectors \/ Query \/ Coverage

Spec == Init /\ [][Next]_vars

\* ------------------------------------------------------------ the claims

LoadedOk == log # <<>> /\ log[1] = "load"

Queried == "query" \in Range(log)

\* the k-th smallest element of a set of indices
Kth(S, k) == CHOOSE i \in S : Cardinality({ j \in S : j <= i }) = k

\* rows is exactly the subsequence of base at the indices in keep
IsSubsequenceAt(rows, base, keep) ==
    /\ Len(rows) = Cardinality(keep)
    /\ \A k \in 1..Len(rows) : rows[k] = base[Kth(keep, k)]

Matching == { i \in 1..Len(df.rows) :
                /\ df.rows[i]["station"] \in stations
                /\ df.rows[i]["year"] \in years
                /\ df.rows[i]["month"] \in months }

\* C1: the query result is exactly the subsequence of the loaded rows, in their
\* order and without duplication, whose station, year and month are each in the
\* selection set of that column; an empty selection set gives an empty result.
C1_FilterIsConjunctiveSubsequence ==
    Queried =>
        /\ IsSubsequenceAt(result, df.rows, Matching)
        /\ (stations = {} \/ years = {} \/ months = {}) => result = <<>>

\* a query that drops the first loaded row and keeps the second
C1_Witness ==
    /\ Queried
    /\ Len(df.rows) = 2
    /\ Len(result) = 1
    /\ result[1] = df.rows[2]
    /\ df.rows[1]["station"] \in stations
    /\ df.rows[1]["year"] \in years

Absent == Range(required_cols) \ Range(src.cols)

\* C2: load_data raises the schema error exactly when a required column is
\* absent from the source, and the error lists exactly the absent required
\* columns, each once; with all six present (extra columns or not) there is none.
C2_SchemaErrorIffMissing ==
    (pc # "start" /\ src.exists) =>
        /\ (err = "schema") <=> (Absent # {})
        /\ err = "schema" => (Range(missing) = Absent /\ Len(missing) = Cardinality(Absent))
        /\ Absent = {} => (err = "none" /\ missing = <<>>)

\* a source with an extra column that lacks two required columns
C2_Witness ==
    /\ err = "schema"
    /\ Len(missing) = 2
    /\ "remark" \in Range(src.cols)
    /\ "fee_yuan" \in Range(missing)

\* the float each source year denotes
SourceYears == [i \in 1..Len(src.rows) |-> to_numeric(src.rows[i]["year"])]

SameOtherFields(a, b) ==
    /\ DOMAIN a = DOMAIN b
    /\ \A c \in (DOMAIN a) \ {"year"} : a[c] = b[c]

\* the loaded rows are the source rows at the indices in keep, in source order,
\* the other fields unchanged, each with an integer year
LoadedRowsAreSourceRowsAt(keep) ==
    /\ Len(df.rows) = Cardinality(keep)
    /\ \A k \in 1..Len(df.rows) :
          /\ df.rows[k]["year"] \in Int
          /\ SameOtherFields(df.rows[k], src.rows[Kth(keep, k)])

IsValueOf(y, v) == y * v.den = v.num

IsTruncationOf(y, v) ==
    IF v.num >= 0
    THEN y * v.den <= v.num /\ v.num < (y + 1) * v.den
    ELSE (y - 1) * v.den < v.num /\ v.num <= y * v.den

\* C3 as stated: after a successful load the rows are the source rows whose year
\* is numeric, in source order, each year coerced to the integer it denotes.
C3_YearIsTheSourceValue ==
    LoadedOk =>
        LET v == SourceYears
            numeric == { i \in DOMAIN v : ~v[i].nan }
        IN /\ LoadedRowsAreSourceRowsAt(numeric)
           /\ \A k \in 1..Len(df.rows) : IsValueOf(df.rows[k]["year"], v[Kth(numeric, k)])

\* C3 as amended: after a successful load the rows are the source rows whose
\* year is numeric, in source order and otherwise unchanged, each year an integer:
\* the numeric value truncated toward zero (the value itself when it is whole);
\* the rows whose year is not numeric or is missing are discarded.
C3_YearIsTruncatedSourceValue ==
    LoadedOk =>
        LET v == SourceYears
            numeric == { i \in DOMAIN v : ~v[i].nan }
        IN /\ LoadedRowsAreSourceRowsAt(numeric)
           /\ \A k \in 1..Len(df.rows) :
                 IsTruncationOf(df.rows[k]["year"], v[Kth(numeric, k)])

\* a malformed year dropped, then a fractional year kept as 2023
C3_Witness ==
    /\ LoadedOk
    /\ Len(src.rows) = 2
    /\ src.rows[1]["year"] = Y2023nian
    /\ src.rows[2]["year"] = Y2023half
    /\ Len(df.rows) = 1
    /\ df.rows[1]["year"] = 2023

RECURSIVE SumFirst(_, _, _)
\* the sum of column c over the first n rows
SumFirst(rows, c, n) == IF n = 0 THEN 0 ELSE SumFirst(rows, c, n - 1) + rows[n][c]

\* C4: for a shown result total_power and total_fee are the sums of power_kwh and
\* fee_yuan over the result rows, avg_price is total_fee / total_power when
\* total_power > 0 and 0 otherwise, and no division by zero happens.
C4_AggregatesAndGuardedAverage ==
    ("aggregate" \in Range(log)) =>
        /\ total_power = SumFirst(result, "power_kwh", Len(result))
        /\ total_fee = SumFirst(result, "fee_yuan", Len(result))
        /\ avg_price.den # 0
        /\ ~avg_price.nan
        /\ IF total_power > 0
           THEN avg_price.num * total_power = total_fee * avg_price.den
           ELSE avg_price.num = 0

\* a result of two rows whose power sums to a negative number
C4_Witness ==
    /\ "aggregate" \in Range(log)
    /\ Len(result) = 2
    /\ total_power < 0
    /\ total_fee > 0

AfterLoadSteps ==
    {"defaults", "selectors", "no_click", "query", "warning", "table", "aggregate",
     "export", "coverage"}

NothingComputed ==
    /\ df = EmptyDf /\ valid_years = <<>> /\ default_year = 0 /\ default_month = <<>>
    /\ station_options = <<>> /\ month_options = <<>>
    /\ stations = {} /\ years = {} /\ months = {}
    /\ result = <<>> /\ outcome = "none" /\ csv = <<>> /\ DOMAIN coverage = {}

\* C5: a failed load is reported and halts the run: nothing after the load is
\* computed in that run; and every later step is preceded by a successful load.
C5_LoadFailureHalts ==
    /\ (pc # "start" /\ (~src.exists \/ Absent # {})) =>
          /\ err # "none"
          /\ pc = "stopped"
          /\ log = <<"load_failed">>
          /\ NothingComputed
          /\ ~ENABLED Next
    /\ \A i \in 1..Len(log) :
          log[i] \in AfterLoadSteps => (i > 1 /\ log[1] = "load" /\ err = "none")

\* a run that stopped on a schema error of a source that has data rows
C5_Witness ==
    /\ pc = "stopped"
    /\ err = "schema"
    /\ Len(src.rows) = 1

\* C6: once load_data has succeeded no later step raises.
C6_NoFailureAfterLoad == LoadedOk => exc = "none"

C8_EmptyResultIsDistinctOutcome ==
    /\ (outcome = "warning") <=> (Queried /\ result = <<>>)
    /\ (outcome = "shown") <=> (Queried /\ result # <<>>)
    /\ outcome = "warning" =>
          /\ err = "none" /\ exc = "none"
          /\ pc \in {"queried", "done"}
          /\ pc = "queried" => ENABLED Coverage
          /\ Range(log) \cap {"table", "aggregate", "export", "load_failed"} = {}
          /\ csv = <<>> /\ total_power = 0 /\ total_fee = 0 /\ avg_price = Float(0, 1)
    /\ outcome = "shown" => "warning" \notin Range(log)

\* three non-empty selections that match no row, and the run went on to the end
C8_Witness ==
    /\ outcome = "warning"
    /\ pc = "done"
    /\ stations # {} /\ years # {} /\ months # {}

RECURSIVE SetSum(_, _)
\* the sum of f[x] over x in S
SetSum(f, S) ==
    IF S = {} THEN 0
    ELSE LET x == CHOOSE x \in S : TRUE IN f[x] + SetSum(f, S \ {x})

CellSum(cov) ==
    SetSum([s \in DOMAIN cov |-> SetSum(cov[s], DOMAIN cov[s])], DOMAIN cov)

CountOf(s, y) ==
    Cardinality({ i \in 1..Len(df.rows) :
                    df.rows[i]["station"] = s /\ df.rows[i]["year"] = y })

HasStation == { i \in 1..Len(df.rows) : df.rows[i]["station"] # "" }

\* the matrix has a cell for every s in S and y in Y, holding the row count
CellsAreCounts(S, Y) ==
    \A s \in S : \A y \in Y :
        /\ s \in DOMAIN coverage
        /\ y \in DOMAIN coverage[s]
        /\ coverage[s][y] = CountOf(s, y)

\* C9 as stated: for every station and every year occurring in the loaded table
\* the cell is the number of loaded rows of that station and year (0 when there
\* is none), and the cells sum to the number of loaded rows.
C9_CellsCountAllLoadedRows ==
    ("coverage" \in Range(log)) =>
        /\ CellsAreCounts({ df.rows[i]["station"] : i \in HasStation },
                          { df.rows[i]["year"] : i \in 1..Len(df.rows) })
        /\ CellSum(coverage) = Len(df.rows)

\* C9 as amended: the matrix has one row per station and one column per year
\* occurring among the loaded rows that have a station; each cell is the number
\* of loaded rows of that station and year (0 when there is none), and the cells
\* sum to the number of loaded rows that have a station.
C9_CellsCountRowsWithStation ==
    ("coverage" \in Range(log)) =>
        LET S == { df.rows[i]["station"] : i \in HasStation }
            Y == { df.rows[i]["year"] : i \in HasStation }
        IN /\ DOMAIN coverage = S
           /\ \A s \in S : DOMAIN coverage[s] = Y
           /\ CellsAreCounts(S, Y)
           /\ CellSum(coverage) = Cardinality(HasStation)

\* two stations and two years with an absent combination shown as 0
C9_Witness ==
    /\ "coverage" \in Range(log)
    /\ DOMAIN coverage = {"A", "B"}
    /\ DOMAIN coverage["A"] = {2023, 2024}
    /\ coverage["A"][2023] = 1
    /\ coverage["A"][2024] = 0
    /\ coverage["B"][2024] = 1

\* C10: once the defaults are computed, each selector's default is one of its
\* options: the station list is not empty, the default year is a year of the
\* data and the default month is a month label of the data.
C10_DefaultsAreOptions ==
    pc = "defaults" =>
        /\ StationOptions(df) # <<>>
        /\ default_year \in Range(valid_years)
        /\ default_month \in Range(MonthLabels(df))

====
